---- MODULE Spec2Model ----
(***************************************************************************)
(* LocalAgentWeaver: per-project index rebuild (LlamaIndexRAGService),     *)
(* the retrieval query path, background document processing                *)
(* (DocumentService) and the RAG chat entry point (ChatService).           *)
(*                                                                         *)
(* One project is modelled.  Every coroutine is cut at its await points:   *)
(* the code between two awaits runs without interleaving on the asyncio    *)
(* event loop, so it is one action.                                        *)
(*                                                                         *)
(* The pure functions (chunk_text, the strategy selector, the fallback     *)
(* prompt, the PDF extraction, the node parser factory), the project       *)
(* requests, one run of the background processing over its chunk records   *)
(* and the model-install task each have a variable and a specification     *)
(* of their own.                                                           *)
(***************************************************************************)
EXTENDS Integers, FiniteSets, Sequences, TLC

\* number of documents that are uploaded to the project
MaxDocs == 2

\* number of update_document and delete_document requests
MaxEdits == 1

Docs == 1..MaxDocs

\* files written by index.storage_context.persist, in the order it writes them
IndexFiles == <<"docstore.json", "index_store.json", "vector_store.json">>

NumIndexFiles == Len(IndexFiles)

\* position of index_store.json, the file create_retriever_query_engine tests
IndexStorePos == CHOOSE i \in 1..NumIndexFiles : IndexFiles[i] = "index_store.json"

\* marks a file of the store directory that does not exist
NoFile == [docs |-> {}, present |-> FALSE]

VARIABLES
    LLAMAINDEX_AVAILABLE,  \* module flag set by the guarded import
    documents,             \* the Document table: row state and flags per id
    task,                  \* the background task created by each upload
    project_dir,           \* the project's store directory on disk
    edits,                 \* update and delete requests served so far
    clean,                 \* history: nothing has yet failed, been skipped
                           \* or been edited (see Clean below)
    ev,                    \* the operation that ran last and what it returned
    chunker,               \* a call of DocumentProcessor.chunk_text: its
                           \* arguments, its locals and what it returned
    selector,              \* a call of get_optimal_chunking_strategy
    composer,              \* the chunk table and the fallback prompt built
                           \* from it
    project,               \* the Project row: its chunking strategy
    extractor,             \* a call of DocumentProcessor._extract_pdf_text
    processor,             \* a project's documents and chunk records while
                           \* _process_document_background runs on them
    parser,                \* a call of _create_optimized_node_parser
    installer              \* a model-install task and the coroutines that
                           \* write its status

\* the state of the document, index and chat services
docVars == <<LLAMAINDEX_AVAILABLE, documents, task, project_dir, edits, clean, ev>>

\* the state outside the document, index and chat services
\* the state of the extraction, processing, parser and install models
laterVars == <<extractor, processor, parser, installer>>

otherVars == <<chunker, selector, composer, project, laterVars>>

\* the value of a variable outside docVars while the function it belongs to
\* is not being called
Idle == [pc |-> "idle"]

vars == <<docVars, otherVars>>

----------------------------------------------------------------------------
(* Store directory *)

\* the directory does not exist
NoDir == [exists |-> FALSE, files |-> [i \in 1..NumIndexFiles |-> NoFile]]

\* project_dir.mkdir on a path that was just removed
EmptyDir == [exists |-> TRUE, files |-> [i \in 1..NumIndexFiles |-> NoFile]]

\* shutil.rmtree(project_dir) followed by project_dir.mkdir
RemoveForRebuild(dr) == EmptyDir

\* the first k files of a persist of `loaded`; the others as before
PersistPrefix(dr, loaded, k) ==
    [exists |-> TRUE,
     files  |-> [i \in 1..NumIndexFiles |->
                    IF i <= k THEN [docs |-> loaded, present |-> TRUE]
                    ELSE dr.files[i]]]

\* PersistIndex with the new documents patched into the files already there
PersistIndex_merge(dr, loaded) ==
    [exists |-> TRUE,
     files  |-> [i \in 1..NumIndexFiles |->
                    [docs |-> loaded \cup dr.files[i].docs, present |-> TRUE]]]

\* index.storage_context.persist(persist_dir) running to its end
PersistIndex(dr, loaded) == PersistPrefix(dr, loaded, NumIndexFiles)

\* CleanupOnFailure that leaves the directory in place
CleanupOnFailure_keep(dr) == dr

\* except branch: if project_dir.exists(): shutil.rmtree(project_dir)
CleanupOnFailure(dr) == IF dr.exists THEN NoDir ELSE dr

\* CleanupUnassigned that removes the directory all the same
CleanupUnassigned_remove(dr) == IF dr.exists THEN NoDir ELSE dr

\* except branch entered before project_dir is assigned: the test
\* 'project_dir' in locals() fails and nothing is removed
CleanupUnassigned(dr) == dr

\* all files of a persist are present and come from the same persist
Complete(dr) ==
    /\ dr.exists
    /\ \A i \in 1..NumIndexFiles :
          /\ dr.files[i].present
          /\ dr.files[i].docs = dr.files[1].docs

\* (project_dir / "index_store.json").exists()
HasIndexStore(dr) == dr.exists /\ dr.files[IndexStorePos].present

\* every file the loader needs is there
Loadable(dr) == dr.exists /\ \A i \in 1..NumIndexFiles : dr.files[i].present

\* the documents whose chunks the persisted files hold
IndexedDocs(dr) == UNION {dr.files[i].docs : i \in 1..NumIndexFiles}

----------------------------------------------------------------------------
(* Document table *)

\* select ... where is_active == True and processed == True, file exists
Eligible(tbl) ==
    {d \in Docs : /\ tbl[d].st = "present"
                  /\ tbl[d].is_active
                  /\ tbl[d].processed}

\* the files of a snapshot that still exist when the reader opens them
StillOnDisk(tbl, snap) == {d \in snap : tbl[d].st = "present"}

----------------------------------------------------------------------------
(* Retrieval query engine *)

QueryOutcomes == {"ok", "load_fail", "embed_fail", "search_fail", "gen_fail"}

NoEngine == [none |-> TRUE, index |-> {}, mixed |-> FALSE, raised |-> FALSE]

\* an engine over the index loaded from the store directory
Engine(dr) ==
    [none |-> FALSE, index |-> IndexedDocs(dr), mixed |-> ~Complete(dr),
     raised |-> FALSE]

\* the exception of the loader leaving create_retriever_query_engine
EngineRaised == [none |-> FALSE, index |-> {}, mixed |-> FALSE, raised |-> TRUE]

\* create_retriever_query_engine that opens a missing store as an empty index
create_retriever_query_engine_nocheck(av, dr, outcome) ==
    IF ~av THEN NoEngine
    ELSE IF outcome = "load_fail" THEN NoEngine
    ELSE Engine(dr)

\* create_retriever_query_engine without its try/except around the loader
create_retriever_query_engine_nocatch(av, dr, outcome) ==
    IF ~av THEN NoEngine
    ELSE IF ~dr.exists THEN NoEngine
    ELSE IF ~HasIndexStore(dr) THEN NoEngine
    ELSE IF ~Loadable(dr) \/ outcome = "load_fail" THEN EngineRaised
    ELSE Engine(dr)

\* create_retriever_query_engine: None, or an engine over the loaded index
create_retriever_query_engine(av, dr, outcome) ==
    IF ~av THEN NoEngine
    ELSE IF ~dr.exists THEN NoEngine
    ELSE IF ~HasIndexStore(dr) THEN NoEngine
    \* load_index_from_storage raises: caught, None
    ELSE IF ~Loadable(dr) \/ outcome = "load_fail" THEN NoEngine
    ELSE Engine(dr)

\* a query result: response kind, sources, the metadata error entry, the
\* exception raised inside the try block ("none" if none was), whether an
\* exception left query, which providers were called, and whether the index
\* that was read is not the output of one persist
Result(kind, sources, error, exc, raised, embed, gen, mixed) ==
    [kind |-> kind, sources |-> sources, error |-> error, exc |-> exc,
     raised |-> raised, embed |-> embed, gen |-> gen, mixed |-> mixed]

\* the result returned when LLAMAINDEX_AVAILABLE is false
Unavailable ==
    Result("unavailable", {}, "llamaindex_unavailable", "none",
           FALSE, FALSE, FALSE, FALSE)

\* the try block of query: engine creation, execution of the query, and the
\* result it returns or the exception it raises
QueryBody(av, dr, outcome) ==
    LET engine == create_retriever_query_engine(av, dr, outcome) IN
    IF engine.raised
      THEN Result("exception", {}, "none", "load", TRUE, FALSE, FALSE, FALSE)
    ELSE IF engine.none
      THEN Result("no_index", {}, "no_index", "none", FALSE, FALSE, FALSE, FALSE)
    ELSE IF outcome = "embed_fail"
      THEN Result("exception", {}, "none", "embed", TRUE, TRUE, FALSE, engine.mixed)
    ELSE IF outcome = "search_fail"
      THEN Result("exception", {}, "none", "search", TRUE, TRUE, FALSE, engine.mixed)
    ELSE IF outcome = "gen_fail"
      THEN Result("exception", {}, "none", "gen", TRUE, TRUE, TRUE, engine.mixed)
    ELSE Result("answer", engine.index, "none", "none", FALSE, TRUE, TRUE,
                engine.mixed)

\* query without the try/except around the engine: exceptions propagate
query_nocatch(av, dr, outcome) ==
    IF ~av THEN Unavailable ELSE QueryBody(av, dr, outcome)

\* LlamaIndexRAGService.query
query(av, dr, outcome) ==
    IF ~av THEN Unavailable
    ELSE LET r == QueryBody(av, dr, outcome) IN
         IF r.raised
           THEN Result("error", {}, r.exc, r.exc, FALSE, r.embed, r.gen, r.mixed)
           ELSE r

----------------------------------------------------------------------------
(* Chat service *)

Providers == {"ollama", "lm_studio"}

GenOutcomes == {"ok", "connect", "timeout", "request", "other"}

HTTP_500 == 500
HTTP_503 == 503
HTTP_504 == 504

\* ChatService.send_message_to_llm: a ChatResponse, or the HTTPException
\* its except clauses raise for the failure of the generation provider
send_message_to_llm(genOutcome) ==
    IF genOutcome = "ok" THEN [ok |-> TRUE, status |-> 0]
    ELSE IF genOutcome = "connect" THEN [ok |-> FALSE, status |-> HTTP_503]
    ELSE IF genOutcome = "timeout" THEN [ok |-> FALSE, status |-> HTTP_504]
    ELSE IF genOutcome = "request" THEN [ok |-> FALSE, status |-> HTTP_503]
    ELSE [ok |-> FALSE, status |-> HTTP_500]

\* the requests that differ in what the handler does: with ollama the engine
\* is asked first and the provider of the fallback is not called, with
\* lm_studio the engine is skipped
ChatInputs ==
    ({"ollama"} \X QueryOutcomes \X {"ok"})
      \cup {<<"ollama", "ok", "timeout">>}
      \cup ({"lm_studio"} \X {"ok"} \X GenOutcomes)

\* RagErrorStatus that re-raises the inner HTTPException unchanged
RagErrorStatus_passthrough(inner) == inner

\* outer except of send_message_with_rag: every exception becomes a 500
RagErrorStatus(inner) == HTTP_500

\* DocumentService.get_active_documents_content: chunks of the documents
\* with is_active and processed (a document stands for its chunks)
get_active_documents_content(tbl) == Eligible(tbl)

\* ChatService.send_message_with_rag
\*   path: "semantic" when the answer is the engine's result, "fallback"
\*   when the prompt was composed from raw chunks and sent to the provider
send_message_with_rag(av, dr, tbl, provider, qOutcome, genOutcome) ==
    LET r    == query(av, dr, qOutcome)
        llm  == send_message_to_llm(genOutcome)
        fall == IF llm.ok
                  THEN [outcome |-> "ChatResponse", status |-> 0,
                        path |-> "fallback", genFailed |-> FALSE]
                  ELSE [outcome |-> "HTTPException",
                        status |-> RagErrorStatus(llm.status),
                        path |-> "fallback", genFailed |-> TRUE]
    IN  IF provider = "ollama"
          THEN IF ~r.raised
                 THEN [outcome |-> "ChatResponse", status |-> 0,
                       path |-> "semantic", genFailed |-> FALSE]
                      @@ [engine |-> r.kind]
                 ELSE fall @@ [engine |-> "raised"]
          ELSE fall @@ [engine |-> "skipped"]

----------------------------------------------------------------------------
(* DocumentProcessor.chunk_text *)

\* longest text that is chunked
MaxLen == 4

\* largest chunk_size a project sets in its chunking_config
MaxChunk == 3

\* largest overlap a project sets in its chunking_config
MaxOverlap == 2

Max(a, b) == IF a >= b THEN a ELSE b

Min(a, b) == IF a <= b THEN a ELSE b

MaxOf(S) == CHOOSE x \in S : \A y \in S : y <= x

MinOf(S) == CHOOSE x \in S : \A y \in S : x <= y

\* the characters of the texts: a letter, a blank, a newline, a period
Alphabet == {"a", " ", "\n", "."}

\* the characters str.strip() removes
Whitespace == {" ", "\n"}

\* the texts that are chunked, as sequences of characters
Texts == UNION {[1..n -> Alphabet] : n \in 0..MaxLen}

\* the ideographic full stop (U+3002), one character
FullStop == "U+3002"

\* for delimiter in ['\n\n', '\n', U+3002, '.'], in this order
Delimiters == << <<"\n", "\n">>, <<"\n">>, <<FullStop>>, <<".">> >>

\* signature defaults of chunk_text
DefaultChunkSize == 1000

DefaultOverlap == 100

\* the keys of CHUNK_STRATEGIES
CHUNK_STRATEGIES == {"sentence", "semantic", "token", "recursive", "default"}

\* str.strip()
strip(s) ==
    LET keep == {i \in 1..Len(s) : s[i] \notin Whitespace} IN
    IF keep = {} THEN <<>> ELSE SubSeq(s, MinOf(keep), MaxOf(keep))

\* a slice index as Python clamps it: negative counts from the end
SliceIndex(i, n) == IF i < 0 THEN Max(i + n, 0) ELSE Min(i, n)

\* content[a:b]
Slice(s, a, b) ==
    LET lo == SliceIndex(a, Len(s))
        hi == SliceIndex(b, Len(s))
    IN  IF lo >= hi THEN <<>> ELSE SubSeq(s, lo + 1, hi)

\* content.rfind(sub, a, b): highest 0-based index of sub in content[a:b], or -1
rfind(s, sub, a, b) ==
    LET lo   == SliceIndex(a, Len(s))
        hi   == SliceIndex(b, Len(s))
        hits == {i \in lo..(hi - Len(sub)) : SubSeq(s, i + 1, i + Len(sub)) = sub}
    IN  IF hits = {} THEN -1 ELSE MaxOf(hits)

\* the right edge of the window that starts at start: start + chunk_size, or
\* the end of the text, moved back behind the last delimiter of the first
\* kind that occurs after start
WindowEnd(content, start, chunk_size) ==
    LET content_length == Len(content)
        end   == Min(start + chunk_size, content_length)
        found == {j \in 1..Len(Delimiters) :
                     rfind(content, Delimiters[j], start, end) > start}
    IN  IF end < content_length /\ found # {}
          THEN LET delimiter == Delimiters[MinOf(found)] IN
               rfind(content, delimiter, start, end) + Len(delimiter)
          ELSE end

\* NextStart without the guard of one character of progress
NextStart_noguard(start, end, overlap) == end - overlap

\* start = max(start + 1, end - overlap)
NextStart(start, end, overlap) == Max(start + 1, end - overlap)

\* the nodes of a LlamaIndex node parser that did not raise, blank ones
\* dropped: the parser is a library, its output is one node of the text
SplitterChunks(content) == IF strip(content) = <<>> THEN <<>> ELSE <<content>>

\* the frame of a call of chunk_text before its arguments are bound
NoCall ==
    [pc |-> "idle", content |-> <<>>, chunk_size |-> 0, overlap |-> 0,
     strategy |-> "default", available |-> FALSE, splitter |-> "ok",
     bad |-> "none", start |-> 0, chunks |-> <<>>, covered |-> {},
     iters |-> 0, path |-> "none", outcome |-> "none"]

\* chunk_text is called by _process_document_background with a text, the
\* strategy, and the project's chunking_config spread into its keywords
\*   available: LLAMAINDEX_AVAILABLE of documents/utils.py
\*   splitter:  whether the node parser of the strategy works or raises
\*   bad:       "non_int" if chunk_size or overlap of the config is not an
\*              integer, "reserved_key" if the config has a key that the
\*              call passes itself (content, strategy, project_type)
Call(content, chunk_size, overlap, strategy, available, splitter, bad) ==
    [NoCall EXCEPT !.pc = "call", !.content = content,
                   !.chunk_size = chunk_size, !.overlap = overlap,
                   !.strategy = strategy, !.available = available,
                   !.splitter = splitter, !.bad = bad]

\* strategy names a project can hold: the known ones and one that is not
StrategyNames == CHUNK_STRATEGIES \cup {"unknown"}

\* texts on which the dispatch on the strategy is exercised
SampleTexts == {<<>>, <<" ">>, <<"a", ".", " ", "a">>}

\* calls of the default algorithm: every text, chunk_size and overlap
DefaultCalls ==
    {Call(t, cs, ov, "default", FALSE, "ok", "none") :
        t \in Texts, cs \in (-1)..MaxChunk, ov \in (-1)..MaxOverlap}

\* calls that differ in strategy, availability, splitter and config
DispatchCalls ==
    {Call(t, cs, DefaultOverlap, s, av, sp, b) :
        t \in SampleTexts, cs \in {2, DefaultChunkSize}, s \in StrategyNames,
        av \in BOOLEAN, sp \in {"ok", "raise"},
        b \in {"none", "non_int", "reserved_key"}}

\* chunk_text up to the loop: binding of the arguments, the blank test and
\* the dispatch on the strategy
chunk_text_enter ==
    /\ chunker.pc = "call"
    /\ \/ \* a key of the config repeats a keyword of the call: TypeError
          /\ chunker.bad = "reserved_key"
          /\ chunker' = [chunker EXCEPT !.pc = "done", !.outcome = "raised"]
       \/ \* if not content.strip(): return []
          /\ chunker.bad # "reserved_key"
          /\ strip(chunker.content) = <<>>
          /\ chunker' = [chunker EXCEPT !.pc = "done", !.path = "empty",
                                        !.outcome = "returned"]
       \/ \* if LLAMAINDEX_AVAILABLE and strategy != 'default'
          /\ chunker.bad # "reserved_key"
          /\ strip(chunker.content) # <<>>
          /\ chunker.available /\ chunker.strategy # "default"
          /\ chunker' = [chunker EXCEPT !.pc = "intelligent"]
       \/ /\ chunker.bad # "reserved_key"
          /\ strip(chunker.content) # <<>>
          /\ ~(chunker.available /\ chunker.strategy # "default")
          /\ chunker' = [chunker EXCEPT !.pc = "loop", !.path = "default",
                                        !.start = 0]
    /\ UNCHANGED <<docVars, selector, composer, project, laterVars>>

\* _intelligent_chunk_text: the nodes of the parser, or, when the parser
\* raises, cls.chunk_text(content) with the defaults of the signature
intelligent_chunk_text ==
    /\ chunker.pc = "intelligent"
    /\ \/ /\ chunker.splitter = "ok"
          /\ chunker' = [chunker EXCEPT
                           !.pc = "done", !.path = "splitter",
                           !.outcome = "returned",
                           !.chunks = SplitterChunks(chunker.content)]
       \/ /\ chunker.splitter = "raise"
          /\ chunker' = [chunker EXCEPT
                           !.pc = "loop", !.path = "fallback", !.start = 0,
                           !.strategy = "default",
                           !.chunk_size = DefaultChunkSize,
                           !.overlap = DefaultOverlap, !.bad = "none"]
    /\ UNCHANGED <<docVars, selector, composer, project, laterVars>>

\* one iteration of the while loop, with the test that follows it
chunk_loop ==
    /\ chunker.pc = "loop"
    /\ \/ \* start + chunk_size on a value that is not an integer: TypeError
          /\ chunker.bad = "non_int"
          /\ chunker' = [chunker EXCEPT !.pc = "done", !.outcome = "raised"]
       \/ /\ chunker.bad # "non_int"
          /\ LET content == chunker.content
                 start   == chunker.start
                 end     == WindowEnd(content, start, chunker.chunk_size)
                 chunk   == strip(Slice(content, start, end))
                 next    == NextStart(start, end, chunker.overlap)
                 window  == (SliceIndex(start, Len(content)) + 1)
                               ..SliceIndex(end, Len(content))
             IN  chunker' = [chunker EXCEPT
                    !.chunks  = IF chunk # <<>> THEN Append(@, chunk) ELSE @,
                    !.covered = IF chunk # <<>> THEN @ \cup window ELSE @,
                    !.iters   = @ + 1,
                    !.start   = next,
                    !.pc      = IF next < Len(content) THEN "loop" ELSE "done",
                    !.outcome = IF next < Len(content) THEN "none"
                                ELSE "returned"]
    /\ UNCHANGED <<docVars, selector, composer, project, laterVars>>

NextChunk ==
    \/ chunk_text_enter
    \/ intelligent_chunk_text
    \/ chunk_loop

----------------------------------------------------------------------------
(* DocumentProcessor.get_optimal_chunking_strategy *)

\* largest number of documents whose extensions are counted
MaxFiles == 10

\* words a project type is made of, in the spelling the user gave them
TypeWords ==
    {"Research", "academic", "LEGAL", "contract", "technical", "Manual",
     "code", "development", "novel"}

\* file extensions, in the spelling of the file name
Extensions == {".pdf", ".PDF", ".md", ".docx", ".txt"}

\* str.lower() on the words and extensions above
lower(w) ==
    CASE w = "Research" -> "research"
      [] w = "LEGAL"    -> "legal"
      [] w = "Manual"   -> "manual"
      [] w = ".PDF"     -> ".pdf"
      [] OTHER          -> w

\* keyword in project_type.lower(), for a project type given as its words
InType(keyword, project_type) ==
    \E i \in 1..Len(project_type) : lower(project_type[i]) = keyword

\* file_types as the number of entries with each extension
Histograms ==
    {h \in [Extensions -> 0..MaxFiles] :
        h[".pdf"] + h[".PDF"] + h[".md"] + h[".docx"] + h[".txt"] <= MaxFiles}

\* len(file_types)
NumFiles(file_types) ==
    file_types[".pdf"] + file_types[".PDF"] + file_types[".md"]
      + file_types[".docx"] + file_types[".txt"]

RECURSIVE SumOver(_, _)
SumOver(file_types, exts) ==
    IF exts = {} THEN 0
    ELSE LET e == CHOOSE x \in exts : TRUE IN
         file_types[e] + SumOver(file_types, exts \ {e})

\* sum(1 for ft in file_types if ft.lower() == ext)
CountOf(file_types, ext) ==
    SumOver(file_types, {e \in Extensions : lower(e) = ext})

\* Exceeds with the comparison not strict
Exceeds_nonstrict(count, total, tenths) == count * 10 >= total * tenths

\* count > len(file_types) * 0.5, 0.3, 0.4: the float product compares as
\* the exact one for every list length below 5000
Exceeds(count, total, tenths) == count * 10 > total * tenths

\* project_type None or the empty string
NoType == <<>>

\* DocumentProcessor.get_optimal_chunking_strategy
get_optimal_chunking_strategy(project_type, file_types) ==
    LET pdf_count  == CountOf(file_types, ".pdf")
        md_count   == CountOf(file_types, ".md")
        docx_count == CountOf(file_types, ".docx")
        total      == NumFiles(file_types)
    IN  IF project_type # NoType
             /\ (InType("research", project_type)
                   \/ InType("academic", project_type))
          THEN "semantic"
        ELSE IF project_type # NoType
             /\ (InType("legal", project_type)
                   \/ InType("contract", project_type))
          THEN "sentence"
        ELSE IF project_type # NoType
             /\ (InType("technical", project_type)
                   \/ InType("manual", project_type))
          THEN "recursive"
        ELSE IF project_type # NoType
             /\ (InType("code", project_type)
                   \/ InType("development", project_type))
          THEN "token"
        ELSE IF total > 0 /\ Exceeds(pdf_count, total, 5) THEN "sentence"
        ELSE IF total > 0 /\ Exceeds(md_count, total, 3) THEN "recursive"
        ELSE IF total > 0 /\ Exceeds(docx_count, total, 4) THEN "sentence"
        ELSE "sentence"

\* the frame of a call of the selector before its arguments are bound
NoSelection ==
    [pc |-> "idle", project_type |-> NoType,
     file_types |-> [e \in Extensions |-> 0], result |-> "none"]

\* project types of up to two words
ProjectTypes == UNION {[1..n -> TypeWords] : n \in 0..2}

\* histograms on which the keyword rules are exercised
SampleHistograms ==
    {h \in Histograms : NumFiles(h) \in {0, 2} /\ h[".txt"] = 0}

\* calls of the selector: every project type with a few histograms, every
\* histogram with no type and with a type that has no keyword
Selections ==
    {[NoSelection EXCEPT !.pc = "call", !.project_type = t, !.file_types = h] :
        t \in ProjectTypes, h \in SampleHistograms}
    \cup
    {[NoSelection EXCEPT !.pc = "call", !.project_type = t, !.file_types = h] :
        t \in {NoType, <<"novel">>}, h \in Histograms}

\* the selector is called and returns
select_strategy ==
    /\ selector.pc = "call"
    /\ selector' = [selector EXCEPT
                      !.pc = "done",
                      !.result = get_optimal_chunking_strategy(
                                    selector.project_type, selector.file_types)]
    /\ UNCHANGED <<docVars, chunker, composer, project, laterVars>>

NextSelect == select_strategy

----------------------------------------------------------------------------
(* DocumentService.get_active_documents_content and
   ChatService._build_context_aware_prompt *)

\* number of documents in the tables the prompt is built from
MaxPromptDocs == 2

\* largest number of chunk records of one document
MaxChunksPerDoc == 6

\* document_chunks[:10]
MaxExcerpts == 10

\* chunk[:500]
ExcerptLength == 500

PromptDocs == 1..MaxPromptDocs

\* the project the chat request names, and another one
ProjectIds == {1, 2}

\* lengths of chunk texts: below, at and above the cut
ChunkLengths == {ExcerptLength - 1, ExcerptLength, ExcerptLength + 1}

\* the Document rows of a table, and the number of chunk records of each
DocRows ==
    [project_id : ProjectIds, is_active : BOOLEAN, processed : BOOLEAN,
     nchunks : 0..MaxChunksPerDoc]

\* the rows a table can hold: a document that is not processed has no
\* chunk records (they are committed together with the flag); of another
\* project only the active and processed documents are of interest
PromptRows ==
    {r \in DocRows :
        /\ r.project_id # 1 => (r.is_active /\ r.processed)
        /\ ~r.processed => r.nchunks = 0}

\* the DocumentChunk records of a table: chunk_index counts from 0
ChunkRecords(tbl, len) ==
    {[document_id |-> d, chunk_index |-> i, len |-> len] :
        d \in PromptDocs, i \in 0..(MaxChunksPerDoc - 1)}
    \ {c \in [document_id : PromptDocs, chunk_index : 0..(MaxChunksPerDoc - 1),
              len : {len}] : c.chunk_index >= tbl[c.document_id].nchunks}

\* order_by(Document.id, DocumentChunk.chunk_index)
Before(a, b) ==
    \/ a.document_id < b.document_id
    \/ a.document_id = b.document_id /\ a.chunk_index < b.chunk_index

RECURSIVE OrderBy(_)
OrderBy(rows) ==
    IF rows = {} THEN <<>>
    ELSE LET first == CHOOSE x \in rows : \A y \in rows \ {x} : Before(x, y)
         IN  <<first>> \o OrderBy(rows \ {first})

\* get_active_documents_content at the grain of chunk records: the chunks
\* joined with their documents, filtered and ordered
ActiveChunks(tbl, len, project_id) ==
    OrderBy({c \in ChunkRecords(tbl, len) :
                /\ tbl[c.document_id].project_id = project_id
                /\ tbl[c.document_id].is_active
                /\ tbl[c.document_id].processed})

\* FirstN that takes the whole list
FirstN_all(s, n) == s

\* s[:n]
FirstN(s, n) == SubSeq(s, 1, Min(n, Len(s)))

\* the excerpt lines of _build_context_aware_prompt: the label counted from
\* 1, and the chunk cut to its first ExcerptLength characters
Excerpts(document_chunks) ==
    LET shown == FirstN(document_chunks, MaxExcerpts) IN
    [k \in 1..Len(shown) |->
        [label |-> k, document_id |-> shown[k].document_id,
         chunk_index |-> shown[k].chunk_index,
         len |-> Min(shown[k].len, ExcerptLength)]]

\* the tables the fallback prompt is built from
PromptInputs ==
    [pc : {"call"}, tbl : [PromptDocs -> PromptRows], len : ChunkLengths,
     excerpts : {<<>>}]

\* the fallback path of send_message_with_rag: the chunks are read and the
\* prompt is built
build_context_aware_prompt ==
    /\ composer.pc = "call"
    /\ composer' = [composer EXCEPT
                      !.pc = "done",
                      !.excerpts = Excerpts(
                          ActiveChunks(composer.tbl, composer.len, 1))]
    /\ UNCHANGED <<docVars, chunker, selector, project, laterVars>>

NextPrompt == build_context_aware_prompt

----------------------------------------------------------------------------
(* ProjectService *)

\* a field that a request leaves out
Unset == "Unset"

\* the value None of an Optional field
None == "None"

\* descriptions of a project: none, one with a keyword, one without
Descriptions == {None, "research", "novel"}

\* chunking strategies a request can carry: any string, or None
StrategyValues == StrategyNames \cup {None}

\* chunking_config values a request can carry: Dict[str, Any], by kind
ConfigValues == {"empty", "sizes", "non_int", "reserved_key"}

\* the Project row before it is created
NoProject ==
    [st |-> "absent", description |-> None, chunking_strategy |-> None,
     chunking_config |-> "empty", response |-> "none"]

\* the value a field of ProjectCreate takes: the one sent, or its default
Sent(value, default) == IF value = Unset THEN default ELSE value

\* ProjectService.create_project: the fields of ProjectCreate are stored
create_project(description, chunking_strategy, chunking_config) ==
    /\ project.st = "absent"
    /\ project' =
         [st |-> "present",
          description |-> Sent(description, None),
          chunking_strategy |-> Sent(chunking_strategy, "sentence"),
          chunking_config |-> Sent(chunking_config, "empty"),
          response |-> "created"]
    /\ UNCHANGED <<docVars, chunker, selector, composer, laterVars>>

\* ProjectService.update_project: setattr for every field that was sent
update_project(description, chunking_strategy, chunking_config) ==
    /\ \/ \* get_project_by_id raises 404
          /\ project.st = "absent"
          /\ project' = [project EXCEPT !.response = "not_found"]
       \/ /\ project.st = "present"
          /\ project' =
               [project EXCEPT
                  !.description = Sent(description, @),
                  !.chunking_strategy = Sent(chunking_strategy, @),
                  !.chunking_config = Sent(chunking_config, @),
                  !.response = "ok"]
    /\ UNCHANGED <<docVars, chunker, selector, composer, laterVars>>

\* ProjectService.update_chunking_config: the strategy is validated against
\* the keys of CHUNK_STRATEGIES, then both fields are stored
update_chunking_config(chunking_strategy, chunking_config) ==
    /\ \/ /\ project.st = "absent"
          /\ project' = [project EXCEPT !.response = "not_found"]
       \/ /\ project.st = "present"
          /\ chunking_strategy \notin CHUNK_STRATEGIES
          /\ project' = [project EXCEPT !.response = "bad_request"]
       \/ /\ project.st = "present"
          /\ chunking_strategy \in CHUNK_STRATEGIES
          /\ project' =
               [project EXCEPT
                  !.chunking_strategy = chunking_strategy,
                  !.chunking_config = Sent(chunking_config, "empty"),
                  !.response = "ok"]
    /\ UNCHANGED <<docVars, chunker, selector, composer, laterVars>>

\* ProjectService.delete_project
delete_project ==
    /\ \/ /\ project.st = "absent"
          /\ project' = [project EXCEPT !.response = "not_found"]
       \/ /\ project.st = "present"
          /\ project' = [NoProject EXCEPT !.response = "ok"]
    /\ UNCHANGED <<docVars, chunker, selector, composer, laterVars>>

NextProject ==
    \/ \E d \in Descriptions \cup {Unset}, s \in StrategyValues \cup {Unset},
          c \in ConfigValues \cup {Unset} : create_project(d, s, c)
    \/ \E d \in Descriptions \cup {Unset}, s \in StrategyValues \cup {Unset},
          c \in ConfigValues \cup {Unset} : update_project(d, s, c)
    \/ \E s \in StrategyNames, c \in ConfigValues \cup {Unset} :
          update_chunking_config(s, c)
    \/ delete_project


----------------------------------------------------------------------------
(* DocumentProcessor._extract_pdf_text *)

MaxPages == 3

\* the text of a page: a string over two letters
PageTexts == {<<>>, <<"a">>, <<"b">>}

\* what page.extract_text() does on one page: it returns a string, returns
\* None, or raises
Pages ==
    [kind : {"text"}, text : PageTexts]
        \cup [kind : {"none", "raises"}, text : {<<>>}]

\* the file given to PdfReader: readable, rejected by PdfReader(file_path),
\* or opened with a page list that cannot be enumerated
Containers == {"ok", "open_fails", "pages_fail"}

PageLists == UNION {[1..n -> Pages] : n \in 0..MaxPages}

\* sep.join(parts)
RECURSIVE join(_, _)
join(sep, parts) ==
    IF parts = <<>> THEN <<>>
    ELSE IF Len(parts) = 1 THEN parts[1]
    ELSE parts[1] \o sep \o join(sep, Tail(parts))

\* one pass of the loop body with the append in place of the continue
ExtractPage_blank(text_chunks, page) ==
    IF page.kind = "raises" THEN Append(text_chunks, <<>>)
    ELSE Append(text_chunks, page.text)

\* one pass of the loop body: text_chunks.append(page.extract_text() or ""),
\* and continue when the extraction raises
ExtractPage(text_chunks, page) ==
    IF page.kind = "raises" THEN text_chunks
    ELSE Append(text_chunks, page.text)

NoExtraction ==
    [pc |-> "call", container |-> "ok", pages |-> <<>>, text_chunks |-> <<>>,
     i |-> 1, outcome |-> "none", result |-> <<>>]

Extractions ==
    {[NoExtraction EXCEPT !.container = c, !.pages = p] :
        c \in Containers, p \in PageLists}

\* reader = PdfReader(file_path); text_chunks = []
extract_open ==
    /\ extractor.pc = "call"
    /\ extractor' =
          IF extractor.container = "open_fails"
          THEN [extractor EXCEPT !.pc = "done", !.outcome = "RuntimeError"]
          ELSE [extractor EXCEPT !.pc = "loop"]
    /\ UNCHANGED <<docVars, chunker, selector, composer, project,
                   processor, parser, installer>>

\* for page in reader.pages: one page
extract_page ==
    /\ extractor.pc = "loop"
    /\ \/ extractor.container = "pages_fail"
       \/ extractor.i <= Len(extractor.pages)
    /\ extractor' =
          IF extractor.container = "pages_fail"
          THEN [extractor EXCEPT !.pc = "done", !.outcome = "RuntimeError"]
          ELSE [extractor EXCEPT
                   !.text_chunks =
                       ExtractPage(extractor.text_chunks,
                                   extractor.pages[extractor.i]),
                   !.i = extractor.i + 1]
    /\ UNCHANGED <<docVars, chunker, selector, composer, project,
                   processor, parser, installer>>

\* return "\n".join(text_chunks)
extract_return ==
    /\ extractor.pc = "loop"
    /\ extractor.container = "ok"
    /\ extractor.i > Len(extractor.pages)
    /\ extractor' =
          [extractor EXCEPT !.pc = "done", !.outcome = "returned",
                            !.result = join(<<"\n">>, extractor.text_chunks)]
    /\ UNCHANGED <<docVars, chunker, selector, composer, project,
                   processor, parser, installer>>

NextExtract ==
    \/ extract_open
    \/ extract_page
    \/ extract_return


----------------------------------------------------------------------------
(* DocumentService._process_document_background, one document of a project:
   the document is number 1, the others are the rest of its project *)

\* documents of the project
MaxProcDocs == 2

\* largest number of chunks the splitter returns
MaxPieces == 2

ProcDocs == 1..MaxProcDocs

\* extensions of stored files: save_file lower-cases the suffix
StoredExtensions == {".pdf", ".md", ".docx", ".txt"}

\* no Document row with this id
Absent == "absent"

\* DocumentProcessor.get_mime_type on a stored extension
MimeOf(ext) ==
    CASE ext = ".pdf"  -> "application/pdf"
      [] ext = ".md"   -> "text/markdown"
      [] ext = ".docx" -> "application/vnd.openxmlformats-officedocument.wordprocessingml.document"
      [] OTHER         -> "text/plain"

\* what chunk_text can return: lists of up to MaxPieces chunks
Pieces == UNION {[1..n -> {"x", "y"}] : n \in 0..MaxPieces}

\* the DocumentChunk rows a list of chunks is stored as
RowsOf(d, chunks) ==
    {[document_id |-> d, chunk_index |-> i - 1, content |-> chunks[i]] :
        i \in 1..Len(chunks)}

\* select(Document.mime_type).where(project_id == ...).distinct()
DistinctMimeTypes(ext) ==
    {MimeOf(ext[k]) : k \in {j \in ProcDocs : ext[j] # Absent}}

\* file_types = [Path(document.file_path).suffix for _ in <mime types>]:
\* the suffix of the document being processed, once per distinct mime type
FileTypes(ext, d) ==
    [e \in Extensions |->
        IF e = ext[d] THEN Cardinality(DistinctMimeTypes(ext)) ELSE 0]

\* project.chunking_strategy if project and project.chunking_strategy
\* else None, then the selector when that is falsy
ChooseStrategy(configured, project_type, file_types) ==
    IF configured # None /\ configured # ""
    THEN configured
    ELSE get_optimal_chunking_strategy(project_type, file_types)

\* the delete statement left out
DeleteChunks_none(table, d) == table

\* delete(DocumentChunk).where(DocumentChunk.document_id == document.id)
DeleteChunks(table, d) == {r \in table : r.document_id # d}

\* session.add(DocumentChunk(document_id, chunk_index=i, content)) for
\* i, chunk_content in enumerate(chunks)
AddChunks(table, d, chunks) == table \cup RowsOf(d, chunks)

\* a rollback that flushes the pending rows
Rollback_flush(committed, pending) == pending

\* session.rollback(): the pending state is dropped
Rollback(committed, pending) == committed

\* the database as one session or the other sees it
NoSession == [table |-> {}, processed |-> FALSE]

NoProcessing ==
    [pc |-> "start", description |-> NoType, configured |-> None,
     ext |-> [k \in ProcDocs |-> Absent],
     db |-> NoSession, before |-> NoSession, session |-> NoSession,
     file_types |-> [e \in Extensions |-> 0], strategy |-> "none",
     chunks |-> <<>>, index_started |-> FALSE]

\* the committed state when the task starts: a fresh upload has no rows and
\* is not processed, a document processed before has the rows of that
\* processing; every other document of the project has one row
TablesBefore(ext) ==
    LET others == UNION {RowsOf(k, <<"x">>) :
                            k \in {j \in ProcDocs \ {1} : ext[j] # Absent}}
    IN  {[table |-> others, processed |-> FALSE]}
            \cup {[table |-> RowsOf(1, earlier) \cup others,
                   processed |-> TRUE] : earlier \in Pieces}

\* project descriptions and configured strategies of the runs
ProcSettings == {NoType, <<"Research">>} \X {None, "", "token"}

\* the frame of a run of the task on a project with the given settings,
\* extensions and committed state
Processing(s, x, b) ==
    [NoProcessing EXCEPT !.description = s[1], !.configured = s[2],
                         !.ext = x, !.db = b, !.before = b, !.session = b]

\* the exception handler is entered: nothing of the session is committed
ProcessFails == [processor EXCEPT !.pc = "failed"]

\* select(Document); return when there is none; read_text_content
process_fetch ==
    /\ processor.pc = "start"
    /\ processor' \in
          IF processor.ext[1] = Absent
          THEN {[processor EXCEPT !.pc = "returned"]}
          ELSE {[processor EXCEPT !.pc = "select"], ProcessFails}
    /\ UNCHANGED <<docVars, chunker, selector, composer, project,
                   extractor, parser, installer>>

\* select(Project); select(Document.mime_type).distinct(); the strategy
process_select ==
    /\ processor.pc = "select"
    /\ processor' \in
          {[processor EXCEPT
               !.pc = "chunk",
               !.file_types = FileTypes(processor.ext, 1),
               !.strategy = ChooseStrategy(processor.configured,
                                           processor.description,
                                           FileTypes(processor.ext, 1))],
           ProcessFails}
    /\ UNCHANGED <<docVars, chunker, selector, composer, project,
                   extractor, parser, installer>>

\* chunks = DocumentProcessor.chunk_text(...), which returns or raises
process_chunk ==
    /\ processor.pc = "chunk"
    /\ processor' \in
          {[processor EXCEPT !.pc = "store", !.chunks = c] : c \in Pieces}
             \cup {ProcessFails}
    /\ UNCHANGED <<docVars, chunker, selector, composer, project,
                   extractor, parser, installer>>

\* the delete, the adds and document.processed = True, all in the session
process_store ==
    /\ processor.pc = "store"
    /\ processor' \in
          {[processor EXCEPT
               !.pc = "commit",
               !.session =
                   [table |-> AddChunks(DeleteChunks(processor.session.table, 1),
                                        1, processor.chunks),
                    processed |-> TRUE]],
           ProcessFails}
    /\ UNCHANGED <<docVars, chunker, selector, composer, project,
                   extractor, parser, installer>>

\* await session.commit()
process_commit ==
    /\ processor.pc = "commit"
    /\ processor' \in
          {[processor EXCEPT !.pc = "index", !.db = processor.session],
           ProcessFails}
    /\ UNCHANGED <<docVars, chunker, selector, composer, project,
                   extractor, parser, installer>>

\* LlamaIndexRAGService.build_or_update_index is called; whatever it
\* returns or raises is only printed
process_index ==
    /\ processor.pc = "index"
    /\ processor' = [processor EXCEPT !.pc = "done", !.index_started = TRUE]
    /\ UNCHANGED <<docVars, chunker, selector, composer, project,
                   extractor, parser, installer>>

\* except Exception: await session.rollback()
process_rollback ==
    /\ processor.pc = "failed"
    /\ processor' =
          [processor EXCEPT
              !.pc = "rolled_back",
              !.db = Rollback(processor.db, processor.session)]
    /\ UNCHANGED <<docVars, chunker, selector, composer, project,
                   extractor, parser, installer>>

NextProcess ==
    \/ process_fetch
    \/ process_select
    \/ process_chunk
    \/ process_store
    \/ process_commit
    \/ process_index
    \/ process_rollback


----------------------------------------------------------------------------
(* LlamaIndexRAGService._create_optimized_node_parser *)

\* the keys of LlamaIndexRAGService.CHUNKING_STRATEGIES
StrategyKeys == {"academic", "legal", "technical", "default"}

\* CHUNKING_STRATEGIES.get(project_type, CHUNKING_STRATEGIES['default'])
StrategyConfig(project_type) ==
    CASE project_type = "academic" ->
            [has_parser |-> TRUE, parser |-> "semantic",
             chunk_size |-> 1024, chunk_overlap |-> 128]
      [] project_type = "legal" ->
            [has_parser |-> TRUE, parser |-> "sentence",
             chunk_size |-> 512, chunk_overlap |-> 64]
      [] project_type = "technical" ->
            [has_parser |-> TRUE, parser |-> "recursive",
             chunk_size |-> 1536, chunk_overlap |-> 256]
      [] OTHER ->
            [has_parser |-> TRUE, parser |-> "sentence",
             chunk_size |-> 1024, chunk_overlap |-> 128]

\* config.get('parser', strategy)
ParserType(config, strategy) ==
    IF config.has_parser THEN config.parser ELSE strategy

\* the parser the function builds: its class, the branch that built it and
\* its sizes
NodeParser(class, branch, chunk_size, chunk_overlap) ==
    [class |-> class, branch |-> branch,
     chunk_size |-> chunk_size, chunk_overlap |-> chunk_overlap]

NoParser == NodeParser("none", "none", 0, 0)

\* the body of _create_optimized_node_parser once LlamaIndex is available;
\* semantic_ok tells whether SemanticSplitterNodeParser(...) constructs
BuildParser(strategy, project_type, semantic_ok) ==
    LET config      == StrategyConfig(project_type)
        first       == ParserType(config, strategy)
        parser_type == IF first = "semantic" /\ ~semantic_ok
                       THEN "sentence" ELSE first
    IN  IF first = "semantic" /\ semantic_ok
          THEN NodeParser("SemanticSplitterNodeParser", "semantic", 0, 0)
        ELSE IF parser_type = "sentence"
          THEN NodeParser("SentenceSplitter", "sentence",
                          config.chunk_size, config.chunk_overlap)
        ELSE IF parser_type = "token"
          THEN NodeParser("TokenTextSplitter", "token",
                          config.chunk_size, config.chunk_overlap)
        ELSE IF parser_type = "recursive"
          THEN NodeParser("SentenceSplitter", "recursive",
                          config.chunk_size, config.chunk_overlap)
        ELSE NodeParser("SentenceSplitter", "else", 1024, 128)

\* project types a caller passes: the keys, None and free text
ParserProjectTypes == StrategyKeys \cup {None, "novel", "Research"}

ParserCalls ==
    [pc : {"call"}, strategy : StrategyNames, project_type : ParserProjectTypes,
     semantic_ok : BOOLEAN, outcome : {"none"}, node_parser : {NoParser}]

\* node_parser = cls._create_optimized_node_parser(chunking_strategy,
\* project_type)
create_optimized_node_parser ==
    /\ parser.pc = "call"
    /\ parser' =
          IF ~LLAMAINDEX_AVAILABLE
          THEN [parser EXCEPT !.pc = "done", !.outcome = "RuntimeError"]
          ELSE [parser EXCEPT
                   !.pc = "done", !.outcome = "returned",
                   !.node_parser = BuildParser(parser.strategy,
                                               parser.project_type,
                                               parser.semantic_ok)]
    /\ UNCHANGED <<docVars, chunker, selector, composer, project,
                   extractor, processor, installer>>

NextParser == create_optimized_node_parser


----------------------------------------------------------------------------
(* ChatService.install_model, _install_ollama_model, cancel_install_task:
   one entry of install_tasks and of install_task_cancelled *)

\* lines of the pull stream that are read
MaxLines == 3

\* InstallTaskStatus
PENDING == "pending"
RUNNING == "running"
COMPLETED == "completed"
FAILED == "failed"
CANCELLED == "cancelled"

\* what a line of the stream holds: nothing, text that is not JSON, a
\* status message, byte counts below or at 99 percent of the total, or
\* the status success
LineKinds == {"blank", "bad_json", "status", "partial", "full", "success"}

\* no task: install_tasks has no entry for the id
NoInstall ==
    [pc |-> "none", status |-> "absent", cancelled |-> FALSE, progress |-> 0,
     message |-> "none", lines |-> 0, response |-> "none"]

\* progress = completed / total of a line with byte counts, in percent
ProgressOf(kind, progress) ==
    CASE kind = "partial" -> 50
      [] kind = "full"    -> 100
      [] OTHER            -> progress

\* the message a line leaves: the byte counts of a line that has them, the
\* status text of a line that has only that
MessageOf(kind, message) ==
    CASE kind \in {"partial", "full"} -> "downloading"
      [] kind = "status"              -> "status"
      [] OTHER                        -> message

\* the status written when the stream has ended: left alone unless RUNNING,
\* then COMPLETED from 99 percent on and FAILED below
AfterStream(status, progress) ==
    IF status # RUNNING THEN status
    ELSE IF progress >= 99 THEN COMPLETED
    ELSE FAILED

\* install_model: the entry is created PENDING, the flag cleared and the
\* background task created; another provider than Ollama gets a 400
install_model(provider) ==
    /\ installer.pc = "none"
    /\ installer' =
          IF provider = "ollama"
          THEN [installer EXCEPT !.pc = "created", !.status = PENDING,
                                 !.cancelled = FALSE, !.message = "queued",
                                 !.response = "task_id"]
          ELSE [installer EXCEPT !.response = "400"]
    /\ UNCHANGED <<docVars, chunker, selector, composer, project,
                   extractor, processor, parser>>

\* _install_ollama_model up to its first await: the status is set RUNNING
install_start ==
    /\ installer.pc = "created"
    /\ installer' = [installer EXCEPT !.pc = "connecting", !.status = RUNNING,
                                      !.message = "installing",
                                      !.progress = 0]
    /\ UNCHANGED <<docVars, chunker, selector, composer, project,
                   extractor, processor, parser>>

\* the POST is answered and raise_for_status passes, or either raises
install_connect ==
    /\ installer.pc = "connecting"
    /\ installer' \in
          {[installer EXCEPT !.pc = "streaming"],
           [installer EXCEPT !.pc = "ended", !.status = FAILED,
                             !.message = "failed"]}
    /\ UNCHANGED <<docVars, chunker, selector, composer, project,
                   extractor, processor, parser>>

\* one line of the stream: the cancellation flag is looked at first
install_line(kind) ==
    /\ installer.pc = "streaming"
    /\ installer.lines < MaxLines
    /\ installer' =
          IF installer.cancelled
            THEN [installer EXCEPT !.pc = "ended", !.status = CANCELLED,
                                   !.message = "cancelled", !.lines = @ + 1]
          ELSE IF kind = "success"
            THEN [installer EXCEPT !.pc = "ended", !.status = COMPLETED,
                                   !.message = "installed",
                                   !.progress = 100, !.lines = @ + 1]
          ELSE [installer EXCEPT
                   !.progress = ProgressOf(kind, installer.progress),
                   !.message = MessageOf(kind, installer.message),
                   !.lines = @ + 1]
    /\ UNCHANGED <<docVars, chunker, selector, composer, project,
                   extractor, processor, parser>>

\* the stream ends, or reading it raises
install_stream_end ==
    /\ installer.pc = "streaming"
    /\ installer' \in
          {[installer EXCEPT
               !.pc = "ended",
               !.status = AfterStream(installer.status, installer.progress),
               !.message = IF installer.status # RUNNING THEN @
                           ELSE IF installer.progress >= 99 THEN "installed"
                           ELSE "incomplete",
               !.progress = IF installer.status = RUNNING
                                 /\ installer.progress >= 99
                            THEN 100 ELSE @],
           [installer EXCEPT !.pc = "ended", !.status = FAILED,
                             !.message = "failed"]}
    /\ UNCHANGED <<docVars, chunker, selector, composer, project,
                   extractor, processor, parser>>

\* cancel_install_task
cancel_install_task ==
    /\ installer' =
          IF installer.status = "absent"
            THEN [installer EXCEPT !.response = "404"]
          ELSE IF installer.status = PENDING
            THEN [installer EXCEPT !.cancelled = TRUE, !.status = CANCELLED,
                                   !.message = "cancelled",
                                   !.response = "cancel_requested"]
          ELSE IF installer.status = RUNNING
            THEN [installer EXCEPT !.cancelled = TRUE,
                                   !.response = "cancel_requested"]
          ELSE [installer EXCEPT !.response = "cannot_cancel"]
    /\ UNCHANGED <<docVars, chunker, selector, composer, project,
                   extractor, processor, parser>>

NextInstall ==
    \/ \E provider \in Providers : install_model(provider)
    \/ install_start
    \/ install_connect
    \/ \E kind \in LineKinds : install_line(kind)
    \/ install_stream_end
    \/ cancel_install_task

----------------------------------------------------------------------------
(* State *)

\* a row of the Document table: chunked tells that the DocumentChunk records
\* of the document have been committed
NoDoc == [st |-> "absent", is_active |-> FALSE, processed |-> FALSE,
          chunked |-> FALSE]

\* a Document as upload_document adds it
NewDoc == [st |-> "present", is_active |-> TRUE, processed |-> FALSE,
           chunked |-> FALSE]

\* a background task: where it is, the rows its rebuild read and whether
\* its rebuild found a complete index when it was called
NoTask == [pc |-> "none", snap |-> {}, had |-> FALSE]

\* a task that has ended
Done == [pc |-> "done", snap |-> {}, had |-> FALSE]

NoResult == Result("none", {}, "none", "none", FALSE, FALSE, FALSE, FALSE)

NoChat == [outcome |-> "none", status |-> 0, path |-> "none",
           genFailed |-> FALSE, engine |-> "none"]

\* the last operation: for a rebuild that returned, its task, return value,
\* the branch that returned, what it persisted and whether that is all it
\* read; for a query its input and result; for a chat its provider and result
NullEv == [op |-> "other", d |-> 0, ret |-> "none", path |-> "none",
           loaded |-> {}, full |-> TRUE, q |-> NoResult,
           provider |-> "none", chat |-> NoChat, session |-> "none",
           had |-> FALSE]

\* BackgroundSession that works on the session of the request
BackgroundSession_request == "request"

\* async with AsyncSessionLocal() as session: the session the background
\* task reads and commits with
BackgroundSession == "own"

\* _process_document_background of d ended without processing: the row
\* was not found, or the work was rolled back
ProcessReturn(d, path) ==
    [NullEv EXCEPT !.op = "process", !.d = d, !.path = path,
                   !.session = BackgroundSession]

\* AfterIndexUpdate that undoes the processing when the rebuild failed
AfterIndexUpdate_rollback(tbl, d, e) ==
    IF e.op = "build_return" /\ e.ret = "False" /\ tbl[d].st = "present"
      THEN [tbl EXCEPT ![d].processed = FALSE, ![d].chunked = FALSE]
      ELSE tbl

\* what _process_document_background does to the table once
\* build_or_update_index has returned or raised: it prints a message
AfterIndexUpdate(tbl, d, e) == tbl

BuildReturn(d, ret, path, snap, loaded, had) ==
    [NullEv EXCEPT !.op = "build_return", !.d = d, !.ret = ret, !.path = path,
                   !.had = had,
                   !.loaded = IF path = "persisted" THEN loaded ELSE {},
                   !.full = (loaded = snap)]

\* no document uploaded, no store directory
InitDocs ==
    /\ documents = [d \in Docs |-> NoDoc]
    /\ task = [d \in Docs |-> NoTask]
    /\ project_dir = NoDir
    /\ edits = 0
    /\ clean = TRUE
    /\ ev = NullEv

Init ==
    /\ LLAMAINDEX_AVAILABLE \in BOOLEAN
    /\ InitDocs
    /\ chunker = Idle
    /\ selector = Idle
    /\ composer = Idle
    /\ project = Idle
    /\ extractor = Idle
    /\ processor = Idle
    /\ parser = Idle
    /\ installer = Idle

\* a call of chunk_text; the index service takes no part
InitChunk ==
    /\ LLAMAINDEX_AVAILABLE = TRUE
    /\ InitDocs
    /\ chunker \in DefaultCalls \cup DispatchCalls
    /\ selector = Idle
    /\ composer = Idle
    /\ project = Idle
    /\ extractor = Idle
    /\ processor = Idle
    /\ parser = Idle
    /\ installer = Idle

\* a chat request that takes the fallback path
InitPrompt ==
    /\ LLAMAINDEX_AVAILABLE = TRUE
    /\ InitDocs
    /\ chunker = Idle
    /\ selector = Idle
    /\ composer \in PromptInputs
    /\ project = Idle
    /\ extractor = Idle
    /\ processor = Idle
    /\ parser = Idle
    /\ installer = Idle

\* no project yet
InitProject ==
    /\ LLAMAINDEX_AVAILABLE = TRUE
    /\ InitDocs
    /\ chunker = Idle
    /\ selector = Idle
    /\ composer = Idle
    /\ project = NoProject
    /\ extractor = Idle
    /\ processor = Idle
    /\ parser = Idle
    /\ installer = Idle

\* a call of get_optimal_chunking_strategy
InitSelect ==
    /\ LLAMAINDEX_AVAILABLE = TRUE
    /\ InitDocs
    /\ chunker = Idle
    /\ selector \in Selections
    /\ composer = Idle
    /\ project = Idle
    /\ extractor = Idle
    /\ processor = Idle
    /\ parser = Idle
    /\ installer = Idle

\* a rebuild is between the removal of the directory and its return
Rebuilding(d) == task[d].pc \in {"read", "finish"}

----------------------------------------------------------------------------
(* DocumentService *)

\* CommitProcessed that sets the flag and leaves the chunk records out
CommitProcessed_flagonly(tbl, d) == [tbl EXCEPT ![d].processed = TRUE]

\* the commit of _process_document_background: the chunk records of the
\* document replaced and processed set, in one transaction
CommitProcessed(tbl, d) ==
    [tbl EXCEPT ![d].processed = TRUE, ![d].chunked = TRUE]

\* upload_document: commit the row, create the background task, return
upload_document(d) ==
    /\ documents[d].st = "absent"
    /\ \A e \in Docs : e < d => documents[e].st # "absent"
    /\ documents' = [documents EXCEPT ![d] = NewDoc]
    /\ task' = [task EXCEPT ![d] = [NoTask EXCEPT !.pc = "process"]]
    /\ ev' = NullEv
    /\ UNCHANGED <<LLAMAINDEX_AVAILABLE, project_dir, edits, clean>>
    /\ UNCHANGED otherVars

\* update_document: set is_active and commit
update_document(d, active) ==
    /\ edits < MaxEdits
    /\ documents[d].st = "present"
    /\ documents' = [documents EXCEPT ![d].is_active = active]
    /\ edits' = edits + 1
    /\ clean' = FALSE
    /\ ev' = NullEv
    /\ UNCHANGED <<LLAMAINDEX_AVAILABLE, task, project_dir>>
    /\ UNCHANGED otherVars

\* delete_document: delete the file, delete the row, commit
delete_document(d) ==
    /\ edits < MaxEdits
    /\ documents[d].st = "present"
    /\ documents' = [documents EXCEPT ![d] = [NoDoc EXCEPT !.st = "deleted"]]
    /\ edits' = edits + 1
    /\ clean' = FALSE
    /\ ev' = NullEv
    /\ UNCHANGED <<LLAMAINDEX_AVAILABLE, task, project_dir>>
    /\ UNCHANGED otherVars

\* _process_document_background up to its commit: the row is gone (return),
\* extraction or chunking raises (rollback), or processed is committed and
\* the index rebuild follows
process_document(d) ==
    /\ task[d].pc = "process"
    /\ \/ /\ documents[d].st # "present"
          /\ task' = [task EXCEPT ![d] = Done]
          /\ clean' = FALSE
          /\ ev' = ProcessReturn(d, "not_found")
          /\ UNCHANGED documents
       \/ /\ documents[d].st = "present"
          /\ task' = [task EXCEPT ![d] = Done]
          /\ clean' = FALSE
          /\ ev' = ProcessReturn(d, "rollback")
          /\ UNCHANGED documents
       \/ /\ documents[d].st = "present"
          /\ documents' = CommitProcessed(documents, d)
          /\ task' = [task EXCEPT ![d].pc = "build"]
          /\ ev' = NullEv
          /\ UNCHANGED clean
    /\ UNCHANGED <<LLAMAINDEX_AVAILABLE, project_dir, edits>>
    /\ UNCHANGED otherVars

----------------------------------------------------------------------------
(* LlamaIndexRAGService.build_or_update_index, called by the task of d *)

\* entry to the first await: availability check, global settings, removal
\* of the store directory and its re-creation, then the select is issued
build_start(d) ==
    /\ task[d].pc = "build"
    /\ \/ /\ ~LLAMAINDEX_AVAILABLE
          /\ task' = [task EXCEPT ![d] = Done]
          /\ clean' = FALSE
          /\ ev' = BuildReturn(d, "False", "unavailable", {}, {},
                            Complete(project_dir))
          /\ UNCHANGED project_dir
       \/ \* _setup_global_settings or base_dir.mkdir raises: project_dir is
          \* not yet a local, the except branch removes nothing
          /\ LLAMAINDEX_AVAILABLE
          /\ task' = [task EXCEPT ![d] = Done]
          /\ clean' = FALSE
          /\ ev' = BuildReturn(d, "False", "setup_fail", {}, {},
                            Complete(project_dir))
          /\ project_dir' = CleanupUnassigned(project_dir)
       \/ /\ LLAMAINDEX_AVAILABLE
          /\ project_dir' = RemoveForRebuild(project_dir)
          /\ task' = [task EXCEPT ![d].pc = "read",
                                  ![d].had = Complete(project_dir)]
          /\ ev' = NullEv
          /\ UNCHANGED clean
    /\ documents' = AfterIndexUpdate(documents, d, ev')
    /\ UNCHANGED <<LLAMAINDEX_AVAILABLE, edits>>
    /\ UNCHANGED otherVars

\* the select of the active and processed documents returns and the rows
\* whose file exists are collected; the session is then closed (await)
build_read(d) ==
    /\ task[d].pc = "read"
    /\ \/ /\ task' = [task EXCEPT ![d].pc = "finish",
                                  ![d].snap = Eligible(documents)]
          /\ ev' = NullEv
          /\ UNCHANGED <<project_dir, clean>>
       \/ \* the select raises
          /\ project_dir' = CleanupOnFailure(project_dir)
          /\ task' = [task EXCEPT ![d] = Done]
          /\ clean' = FALSE
          /\ ev' = BuildReturn(d, "False", "read_fail", {}, {}, task[d].had)
    /\ documents' = AfterIndexUpdate(documents, d, ev')
    /\ UNCHANGED <<LLAMAINDEX_AVAILABLE, edits>>
    /\ UNCHANGED otherVars

\* from the close of the session to the return: no files, no documents
\* loaded, embedding fails, persist fails after k files, or persist succeeds
build_finish(d) ==
    /\ task[d].pc = "finish"
    /\ task' = [task EXCEPT ![d] = Done]
    /\ LET snap == task[d].snap IN
       \/ /\ snap = {}
          /\ ev' = BuildReturn(d, "True", "no_files", snap, {},
                                      task[d].had)
          /\ UNCHANGED <<project_dir, clean>>
       \/ /\ snap # {}
          /\ \E loaded \in SUBSET StillOnDisk(documents, snap) :
                \/ /\ loaded = {}
                   /\ ev' = BuildReturn(d, "True", "no_docs", snap, loaded,
                                      task[d].had)
                   /\ clean' = FALSE
                   /\ UNCHANGED project_dir
                \/ /\ loaded # {}
                   /\ project_dir' = CleanupOnFailure(project_dir)
                   /\ clean' = FALSE
                   /\ ev' = BuildReturn(d, "False", "embed_fail", snap, loaded,
                                      task[d].had)
                \/ /\ loaded # {}
                   /\ \E k \in 0..(NumIndexFiles - 1) :
                         project_dir' = CleanupOnFailure(
                                          PersistPrefix(project_dir, loaded, k))
                   /\ clean' = FALSE
                   /\ ev' = BuildReturn(d, "False", "persist_fail", snap, loaded,
                                      task[d].had)
                \/ /\ loaded # {}
                   /\ project_dir' = PersistIndex(project_dir, loaded)
                   /\ clean' = (clean /\ loaded = snap)
                   /\ ev' = BuildReturn(d, "True", "persisted", snap, loaded,
                                      task[d].had)
    /\ documents' = AfterIndexUpdate(documents, d, ev')
    /\ UNCHANGED <<LLAMAINDEX_AVAILABLE, edits>>
    /\ UNCHANGED otherVars

----------------------------------------------------------------------------
(* Request handlers of the query path: no await inside, one action each *)

\* a call of LlamaIndexRAGService.query
Query(outcome) ==
    /\ ev' = [NullEv EXCEPT !.op = "query",
                !.q = query(LLAMAINDEX_AVAILABLE, project_dir, outcome)]
    /\ UNCHANGED <<LLAMAINDEX_AVAILABLE, documents, task, project_dir, edits,
                   clean>>
    /\ UNCHANGED otherVars

\* a call of ChatService.send_message_with_rag
Chat(provider, qOutcome, genOutcome) ==
    /\ ev' = [NullEv EXCEPT !.op = "chat", !.provider = provider,
                !.chat = send_message_with_rag(LLAMAINDEX_AVAILABLE,
                            project_dir, documents, provider, qOutcome,
                            genOutcome)]
    /\ UNCHANGED <<LLAMAINDEX_AVAILABLE, documents, task, project_dir, edits,
                   clean>>
    /\ UNCHANGED otherVars

\* uploads, edits and the background tasks
Documents ==
    \/ \E d \in Docs : upload_document(d)
    \/ \E d \in Docs, a \in BOOLEAN : update_document(d, a)
    \/ \E d \in Docs : delete_document(d)
    \/ \E d \in Docs : process_document(d)
    \/ \E d \in Docs : build_start(d)
    \/ \E d \in Docs : build_read(d)
    \/ \E d \in Docs : build_finish(d)

\* document traffic with queries of the semantic engine
Next ==
    \/ Documents
    \/ \E o \in QueryOutcomes : Query(o)

Spec == Init /\ [][Next]_vars

\* document traffic with RAG chat requests
NextChat ==
    \/ Documents
    \/ \E i \in ChatInputs : Chat(i[1], i[2], i[3])

SpecChat == Init /\ [][NextChat]_vars

\* calls of DocumentProcessor.chunk_text
SpecChunk == InitChunk /\ [][NextChunk]_vars

\* calls of DocumentProcessor.get_optimal_chunking_strategy
SpecSelect == InitSelect /\ [][NextSelect]_vars

\* fallback prompts built from the chunk table
SpecPrompt == InitPrompt /\ [][NextPrompt]_vars

\* requests that create, update and delete the project
SpecProject == InitProject /\ [][NextProject]_vars


\* a call of _extract_pdf_text
InitExtract ==
    /\ LLAMAINDEX_AVAILABLE = TRUE
    /\ InitDocs
    /\ chunker = Idle
    /\ selector = Idle
    /\ composer = Idle
    /\ project = Idle
    /\ extractor \in Extractions
    /\ processor = Idle
    /\ parser = Idle
    /\ installer = Idle

SpecExtract == InitExtract /\ [][NextExtract]_vars


\* one run of _process_document_background
InitProcess ==
    /\ LLAMAINDEX_AVAILABLE = TRUE
    /\ InitDocs
    /\ chunker = Idle
    /\ selector = Idle
    /\ composer = Idle
    /\ project = Idle
    /\ extractor = Idle
    /\ \E s \in ProcSettings, x \in [ProcDocs -> StoredExtensions \cup {Absent}] :
          \E b \in TablesBefore(x) : processor = Processing(s, x, b)
    /\ parser = Idle
    /\ installer = Idle

SpecProcess == InitProcess /\ [][NextProcess]_vars


\* a call of _create_optimized_node_parser
InitParser ==
    /\ LLAMAINDEX_AVAILABLE \in BOOLEAN
    /\ InitDocs
    /\ chunker = Idle
    /\ selector = Idle
    /\ composer = Idle
    /\ project = Idle
    /\ extractor = Idle
    /\ processor = Idle
    /\ parser \in ParserCalls
    /\ installer = Idle

SpecParser == InitParser /\ [][NextParser]_vars


\* one model-install task and the cancel requests on it
InitInstall ==
    /\ LLAMAINDEX_AVAILABLE = TRUE
    /\ InitDocs
    /\ chunker = Idle
    /\ selector = Idle
    /\ composer = Idle
    /\ project = Idle
    /\ extractor = Idle
    /\ processor = Idle
    /\ parser = Idle
    /\ installer = NoInstall

SpecInstall == InitInstall /\ [][NextInstall]_vars

----------------------------------------------------------------------------
(* Properties *)

\* the query, issued in the current state, as its caller sees it
QueryNow(outcome) == query(LLAMAINDEX_AVAILABLE, project_dir, outcome)

\* some rebuild of the project is in progress
Busy == \E d \in Docs : Rebuilding(d)

\* every background task that was created has ended
AllDone ==
    /\ \E d \in Docs : task[d].pc = "done"
    /\ \A d \in Docs : task[d].pc \in {"none", "done"}

\* C1: query never propagates an exception; when the execution of the query
\* engine raises (embedding, search or synthesis), query returns the error
\* result: an error message, no sources, an error entry in the metadata.
C1_QueryNeverRaises ==
    ev.op = "query" =>
        /\ ~ev.q.raised
        /\ ev.q.exc # "none" =>
              /\ ev.q.kind = "error"
              /\ ev.q.sources = {}
              /\ ev.q.error # "none"

C1_Witness ==
    ev.op = "query" /\ ev.q.exc = "gen" /\ ev.q.kind = "error"

\* C2 as stated: a query on a project whose store directory is absent or has
\* no index_store.json returns the no-index answer, sources empty, metadata
\* error no_index, and calls neither provider.
C2_NoIndexAnswer ==
    (ev.op = "query" /\ ~HasIndexStore(project_dir)) =>
        /\ ev.q.kind = "no_index"
        /\ ev.q.sources = {}
        /\ ev.q.error = "no_index"
        /\ ~ev.q.embed
        /\ ~ev.q.gen

\* C2 amended: the same, provided LlamaIndex is available; when it is not,
\* the answer is the llamaindex_unavailable one, again without sources and
\* without a provider call.
C2_NoIndexAnswerWhenAvailable ==
    (ev.op = "query" /\ ~HasIndexStore(project_dir)) =>
        /\ ev.q.sources = {}
        /\ ~ev.q.embed
        /\ ~ev.q.gen
        /\ ~ev.q.raised
        /\ IF LLAMAINDEX_AVAILABLE
             THEN ev.q.kind = "no_index" /\ ev.q.error = "no_index"
             ELSE ev.q.kind = "unavailable"
                  /\ ev.q.error = "llamaindex_unavailable"

C2_Witness ==
    /\ ev.op = "query"
    /\ LLAMAINDEX_AVAILABLE
    /\ project_dir.exists
    /\ ~HasIndexStore(project_dir)
    /\ ev.q.kind = "no_index"

\* C3: a rebuild that fails while embedding or persisting returns False, the
\* store directory does not exist when it returns, and a query issued then
\* returns the no-index result without raising, whatever the providers do.
C3_FailedBuildLeavesNoDirectory ==
    (ev.op = "build_return" /\ ev.path \in {"embed_fail", "persist_fail"}) =>
        /\ ev.ret = "False"
        /\ ~project_dir.exists
        /\ \A o \in QueryOutcomes :
              QueryNow(o).kind = "no_index" /\ ~QueryNow(o).raised

C3_Witness ==
    ev.op = "build_return" /\ ev.path = "persist_fail" /\ ev.ret = "False"

\* C4: a rebuild that finds no active and processed document returns True
\* and a query issued when it has returned gives the no-index result.
C4_EmptyRebuildYieldsNoIndex ==
    (ev.op = "build_return" /\ ev.path = "no_files") =>
        /\ ev.ret = "True"
        /\ \A o \in QueryOutcomes : QueryNow(o).kind = "no_index"

\* C5 as stated: when a rebuild returns True the persisted index holds
\* exactly the documents the invocation read as active and processed.
C5_IndexIsWhatWasRead ==
    (ev.op = "build_return" /\ ev.ret = "True") =>
        /\ ev.full
        /\ IndexedDocs(project_dir) = ev.loaded

\* C5 amended: when a rebuild returns True after persisting, the store holds
\* one complete index of exactly the documents its reader loaded (files
\* whose reader failed are left out) and nothing else; a rebuild that
\* returns True otherwise (no file, no document loaded) has persisted nothing.
C5_IndexIsWhatWasLoaded ==
    (ev.op = "build_return" /\ ev.ret = "True") =>
        IF ev.path = "persisted"
          THEN /\ ev.loaded # {}
               /\ Complete(project_dir)
               /\ IndexedDocs(project_dir) = ev.loaded
          ELSE ev.path \in {"no_files", "no_docs"} /\ ev.loaded = {}

C5_Witness ==
    /\ ev.op = "build_return"
    /\ ev.path = "persisted"
    /\ ~ev.full
    /\ IndexedDocs(project_dir) = ev.loaded

\* C6: two rebuilds of the project are never both between the removal of
\* the store directory and their return.
C6_RebuildsSerialized ==
    \A d1, d2 \in Docs : (Rebuilding(d1) /\ Rebuilding(d2)) => d1 = d2

\* C7: a query that runs while a rebuild is in progress does not raise and
\* returns the no-index result or an answer read from one complete
\* persisted index; an error result only reports a failure of a provider.
C7_QueryDuringRebuild ==
    (ev.op = "query" /\ Busy) =>
        /\ ~ev.q.raised
        /\ ~ev.q.mixed
        /\ ev.q.kind \in {"answer", "no_index", "error"}
        /\ ev.q.kind = "answer" =>
              Complete(project_dir) /\ ev.q.sources = IndexedDocs(project_dir)
        /\ ev.q.kind = "error" => ev.q.exc \in {"embed", "search", "gen"}

C7_Witness ==
    ev.op = "query" /\ Busy /\ ev.q.kind = "answer" /\ ev.q.sources # {}

\* C8: once every background task has ended, with every rebuild having
\* returned True, every reader having loaded all it read, and no document
\* edited since, the persisted index holds the active and processed documents.
C8_FinalIndexIsCurrent ==
    (AllDone /\ clean) => IndexedDocs(project_dir) = Eligible(documents)

\* C9: for provider ollama, when the semantic engine is unavailable or its
\* query fails, the answer is produced by the fallback composer.
C9_FallbackOnEngineFailure ==
    (/\ ev.op = "chat"
     /\ ev.provider = "ollama"
     /\ ev.chat.engine \in {"unavailable", "error"})
        => ev.chat.path = "fallback"

\* C10 as stated: when the generation provider fails on the fallback path
\* the caller receives a ChatResponse.
C10_FallbackFailureAnswered ==
    (ev.op = "chat" /\ ev.chat.path = "fallback" /\ ev.chat.genFailed) =>
        ev.chat.outcome = "ChatResponse"

\* C10 amended: when the generation provider fails on the fallback path,
\* send_message_with_rag returns no ChatResponse: it raises an HTTPException
\* with status 500, whatever status send_message_to_llm gave its own.
C10_FallbackFailureIs500 ==
    (ev.op = "chat" /\ ev.chat.path = "fallback" /\ ev.chat.genFailed) =>
        /\ ev.chat.outcome = "HTTPException"
        /\ ev.chat.status = HTTP_500

C10_Witness ==
    /\ ev.op = "chat"
    /\ ev.provider = "lm_studio"
    /\ ev.chat.path = "fallback"
    /\ ev.chat.genFailed
    /\ ev.chat.outcome = "HTTPException"

\* chunk_text has returned a chunk list
Returned == chunker.pc = "done" /\ chunker.outcome = "returned"

\* the chunk list was produced by the sliding-window loop
ByLoop == chunker.path \in {"default", "fallback"}

\* C11: the sliding-window loop terminates for every text, chunk_size and
\* overlap, overlap >= chunk_size included: every iteration moves the window
\* start forward, and the loop runs at most len(text) times.
C11_LoopTerminates ==
    /\ [](chunker.iters <= Len(chunker.content))
    /\ [][(chunker.pc = "loop" /\ chunker'.iters > chunker.iters)
             => chunker'.start > chunker.start]_vars

C11_Witness ==
    /\ Returned
    /\ chunker.chunk_size >= 1
    /\ chunker.overlap >= chunker.chunk_size
    /\ chunker.iters = Len(chunker.content)
    /\ chunker.iters >= 3

\* C12: chunk_text returns the empty list exactly when the content is empty
\* or whitespace-only; every chunk the loop returns is non-empty and has no
\* leading or trailing whitespace.
C12_NonEmptyTrimmedChunks ==
    Returned =>
        /\ (chunker.chunks = <<>>) <=> (strip(chunker.content) = <<>>)
        /\ ByLoop => \A i \in 1..Len(chunker.chunks) :
                        /\ chunker.chunks[i] # <<>>
                        /\ strip(chunker.chunks[i]) = chunker.chunks[i]

\* C13: the chunks of the loop cover the text: every character of the text
\* that is not whitespace lies in a returned chunk.
C13_ChunksCoverText ==
    (Returned /\ ByLoop) =>
        \A i \in 1..Len(chunker.content) :
            chunker.content[i] \notin Whitespace => i \in chunker.covered

\* C14: the chunk_text call of background processing returns a chunk list
\* for every strategy name and every chunking_config; it never raises.
C14_ChunkingNeverAborts ==
    chunker.pc = "done" => chunker.outcome = "returned"

\* the share of the extension among the file types, in percent, exceeds p
ShareAbove(ext, p) ==
    LET n == NumFiles(selector.file_types) IN
    /\ n > 0
    /\ 100 * CountOf(selector.file_types, ext) > p * n

\* some word of the project type is, in lower case, one of the keywords
Keyword(kws) ==
    \E i \in 1..Len(selector.project_type) :
        lower(selector.project_type[i]) \in kws

\* C15: the selector returns what the decision table says: the first keyword
\* group of the lower-cased project type (research/academic, legal/contract,
\* technical/manual, code/development), whatever the file types; otherwise
\* PDF share > 50%: sentence, else markdown share > 30%: recursive, else
\* .docx share > 40%: sentence; otherwise sentence.
C15_DecisionTable ==
    selector.pc = "done" =>
        /\ selector.result \in {"sentence", "semantic", "token", "recursive"}
        /\ selector.result =
             IF Keyword({"research", "academic"}) THEN "semantic"
             ELSE IF Keyword({"legal", "contract"}) THEN "sentence"
             ELSE IF Keyword({"technical", "manual"}) THEN "recursive"
             ELSE IF Keyword({"code", "development"}) THEN "token"
             ELSE IF ShareAbove(".pdf", 50) THEN "sentence"
             ELSE IF ShareAbove(".md", 30) THEN "recursive"
             ELSE IF ShareAbove(".docx", 40) THEN "sentence"
             ELSE "sentence"

C15_Witness ==
    /\ selector.pc = "done"
    /\ ~Keyword({"research", "academic", "legal", "contract", "technical",
                 "manual", "code", "development"})
    /\ NumFiles(selector.file_types) = 10
    /\ CountOf(selector.file_types, ".md") = 3
    /\ CountOf(selector.file_types, ".pdf") = 2
    /\ selector.file_types[".PDF"] = 2
    /\ selector.result = "sentence"

\* C16: processed is false from the upload until background processing has
\* chunked the text; it is true exactly when the chunk records of the
\* document are committed, and it stays false when processing is rolled back.
C16_ProcessedWithChunks ==
    /\ \A d \in Docs :
          /\ documents[d].processed <=> documents[d].chunked
          /\ task[d].pc = "process" => ~documents[d].processed
    /\ (ev.op = "process" /\ ev.path \in {"rollback", "not_found"})
          => ~documents[ev.d].processed

C16_Witness ==
    /\ ev.op = "process"
    /\ ev.path = "rollback"
    /\ documents[ev.d].st = "present"
    /\ ~documents[ev.d].processed
    /\ \E d \in Docs : documents[d].processed /\ documents[d].chunked

\* C17: when build_or_update_index returns False during background
\* processing, the document, unless a user deleted it meanwhile, is still
\* processed with its chunk records committed.
C17_IndexFailureKeepsDocument ==
    (/\ ev.op = "build_return"
     /\ ev.ret = "False"
     /\ documents[ev.d].st = "present")
        => documents[ev.d].processed /\ documents[ev.d].chunked

C17_Witness ==
    /\ ev.op = "build_return"
    /\ ev.ret = "False"
    /\ ev.path = "embed_fail"
    /\ documents[ev.d].st = "present"
    /\ documents[ev.d].processed

Shown(c) ==
    /\ c.chunk_index < composer.tbl[c.document_id].nchunks
    /\ composer.tbl[c.document_id].project_id = 1
    /\ composer.tbl[c.document_id].is_active
    /\ composer.tbl[c.document_id].processed

\* the number of those records
NumShown ==
    Cardinality({c \in [document_id : PromptDocs,
                        chunk_index : 0..(MaxChunksPerDoc - 1)] : Shown(c)})

\* C19: the fallback prompt holds the first min(10, n) chunks of the active
\* and processed documents of the project, in the order of document id and
\* chunk index, the k-th labelled k counting from 1, each cut to its first
\* 500 characters; no chunk of another document appears.
C19_PromptExcerpts ==
    composer.pc = "done" =>
        LET e == composer.excerpts IN
        /\ Len(e) = Min(10, NumShown)
        /\ \A k \in 1..Len(e) :
              /\ e[k].label = k
              /\ Shown(e[k])
              /\ e[k].len = Min(composer.len, 500)
              /\ k > 1 => Before(e[k - 1], e[k])
              \* the chunks in front of the k-th are k - 1 in number
              /\ Cardinality({c \in [document_id : PromptDocs,
                                     chunk_index : 0..(MaxChunksPerDoc - 1)] :
                                 Shown(c) /\ Before(c, e[k])}) = k - 1

C19_Witness ==
    /\ composer.pc = "done"
    /\ NumShown > 10
    /\ Len(composer.excerpts) = 10
    /\ composer.len > 500
    /\ composer.excerpts[10].document_id = MaxPromptDocs

\* C20: the stored chunking strategy of a project is absent or one of
\* sentence, semantic, token, recursive, default.
C20_StrategyInFixedSet ==
    project.st = "present" =>
        project.chunking_strategy \in
            {None, "sentence", "semantic", "token", "recursive", "default"}


\* the texts of the pages whose extraction did not raise, in page order,
\* with None read as the empty string
Extracted(pages) ==
    LET kept == SelectSeq(pages, LAMBDA p : p.kind # "raises")
    IN  [k \in 1..Len(kept) |-> kept[k].text]

\* C21: _extract_pdf_text skips every page whose extraction raises and
\* returns the texts of the other pages, in page order, joined by newlines;
\* it raises only when the container cannot be read (PdfReader rejects the
\* file or its page list cannot be enumerated).
C21_BestEffortPages ==
    extractor.pc = "done" =>
        /\ extractor.outcome = "RuntimeError" <=> extractor.container # "ok"
        /\ extractor.container = "ok" =>
              /\ extractor.outcome = "returned"
              /\ extractor.result = join(<<"\n">>, Extracted(extractor.pages))

C21_Witness ==
    /\ extractor.pc = "done"
    /\ extractor.container = "ok"
    /\ Len(extractor.pages) = 3
    /\ extractor.pages[1].text = <<"a">>
    /\ extractor.pages[2].kind = "raises"
    /\ extractor.pages[3].text = <<"b">>
    /\ extractor.result = <<"a", "\n", "b">>


\* the extensions of the documents of the project, one entry per document
FileTypesOfProject(ext) ==
    [e \in Extensions |-> Cardinality({k \in ProcDocs : ext[k] = e})]

\* C22: the strategy background processing applies is the project's
\* configured strategy when one is set, and otherwise the selector's result
\* on the project description and the extensions of all documents of the
\* project, one entry per document.
C22_StrategyFromProjectFiles ==
    processor.pc \in {"chunk", "store", "commit", "index", "done"} =>
        processor.strategy =
            IF processor.configured \notin {None, ""}
            THEN processor.configured
            ELSE get_optimal_chunking_strategy(
                     processor.description,
                     FileTypesOfProject(processor.ext))


\* the committed DocumentChunk rows of the document being processed
CommittedRows == {r \in processor.db.table : r.document_id = 1}

\* C24: once a processing has committed, the chunk records of the document
\* are one per chunk of the splitter's output, numbered 0..n-1 in output
\* order, and no record of an earlier processing remains; before the commit
\* the committed records are those the processing found (the delete and the
\* inserts are one transaction).
C24_ContiguousOrdinals ==
    /\ processor.pc \in {"index", "done"} =>
          /\ Cardinality(CommittedRows) = Len(processor.chunks)
          /\ \A i \in 1..Len(processor.chunks) :
                \E r \in CommittedRows :
                    r.chunk_index = i - 1 /\ r.content = processor.chunks[i]
          /\ processor.db.processed
    /\ processor.pc \in {"start", "select", "chunk", "store", "commit"} =>
          processor.db = processor.before

C24_Witness ==
    /\ processor.pc = "done"
    /\ processor.before.table =
          RowsOf(1, <<"x", "y">>) \cup RowsOf(2, <<"x">>)
    /\ processor.chunks = <<"y">>
    /\ processor.db.table = RowsOf(1, <<"y">>) \cup RowsOf(2, <<"x">>)


\* C29: when background processing fails before its commit has succeeded,
\* the handler rolls the session back: the committed processed flag and
\* chunk records are those the task found, and build_or_update_index has
\* not been called.
C29_FailureRollsBack ==
    processor.pc \in {"failed", "rolled_back"} =>
        /\ processor.db.processed = processor.before.processed
        /\ processor.db.table = processor.before.table
        /\ ~processor.index_started

C29_Witness ==
    /\ processor.pc = "rolled_back"
    /\ processor.before.processed
    /\ processor.before.table = RowsOf(1, <<"x", "y">>)
    /\ processor.session.table = RowsOf(1, <<"y">>)
    /\ processor.db.table = RowsOf(1, <<"x", "y">>)


\* C23: for every project_type, a call of _create_optimized_node_parser
\* with strategy semantic, sentence, token or recursive returns the parser
\* of that strategy (the semantic one when its constructor succeeds).
C23_ParserFollowsStrategy ==
    (/\ parser.pc = "done"
     /\ parser.outcome = "returned"
     /\ parser.strategy \in {"semantic", "sentence", "token", "recursive"}
     /\ parser.strategy = "semantic" => parser.semantic_ok)
        => parser.node_parser.branch = parser.strategy


\* s is a suffix of t and shorter than t
ProperSuffix(s, t) ==
    /\ Len(s) < Len(t)
    /\ \A i \in 1..Len(s) : s[i] = t[Len(t) - Len(s) + i]

\* C25: with 1 <= chunk_size and 0 <= overlap < chunk_size, the loop
\* returns exactly one chunk, the trimmed text, for a text no longer than
\* chunk_size, and no chunk it returns is a proper suffix of the chunk
\* before it (nothing is emitted after a window has reached the end).
C25_NoSuffixChunks ==
    (/\ Returned
     /\ ByLoop
     /\ chunker.chunk_size >= 1
     /\ chunker.overlap >= 0
     /\ chunker.overlap < chunker.chunk_size)
        => /\ (/\ Len(chunker.content) <= chunker.chunk_size
               /\ strip(chunker.content) # <<>>)
                  => chunker.chunks = <<strip(chunker.content)>>
           /\ \A k \in 2..Len(chunker.chunks) :
                 ~ProperSuffix(chunker.chunks[k], chunker.chunks[k - 1])


\* C26: once every background task has ended, a semantic query returns no
\* source from a document that update_document has deactivated or
\* delete_document has removed.
C26_EditedDocumentLeavesIndex ==
    (AllDone /\ ev.op = "query") =>
        \A d \in ev.q.sources :
            documents[d].st = "present" /\ documents[d].is_active

\* C27: the step on which a rebuild returns False leaves a complete index
\* that it finds in the store directory (persisted by another rebuild, since
\* its own start emptied the directory) where it is.
C27_CleanupSparesOtherIndex ==
    [][(/\ ev'.op = "build_return"
        /\ ev'.ret = "False"
        /\ Complete(project_dir))
          => project_dir' = project_dir]_vars


\* C28 as stated: when a rebuild that found a complete index returns False,
\* the project still has a complete index to answer from.
C28_FailedRebuildKeepsIndex ==
    (ev.op = "build_return" /\ ev.ret = "False" /\ ev.had) =>
        Complete(project_dir)

\* C28 amended: a rebuild that found a complete index and returns False
\* has left it in place only when it failed before removing the store
\* directory (LlamaIndex unavailable, or the setup raised); when it fails
\* later (the select, the embedding or the persist raises) the store
\* directory is gone and every query gets the no-index result.
C28_FailedRebuildAfterRemoval ==
    (ev.op = "build_return" /\ ev.ret = "False" /\ ev.had) =>
        IF ev.path \in {"unavailable", "setup_fail"}
          THEN Complete(project_dir)
          ELSE /\ ev.path \in {"read_fail", "embed_fail", "persist_fail"}
               /\ project_dir = NoDir
               /\ \A o \in QueryOutcomes : QueryNow(o).kind = "no_index"

C28_Witness ==
    /\ ev.op = "build_return"
    /\ ev.ret = "False"
    /\ ev.had
    /\ ev.path = "embed_fail"
    /\ project_dir = NoDir
    /\ ~Busy


\* C30: COMPLETED, FAILED and CANCELLED are absorbing: no step of the
\* background task or of cancel_install_task changes the status of a task
\* that has one of them; a task cancelled while PENDING is never set RUNNING.
C30_TerminalStatesAbsorbing ==
    [][installer.status \in {COMPLETED, FAILED, CANCELLED}
          => installer'.status = installer.status]_vars

====
